---- MODULE Spec2Model ----
(***************************************************************************)
(* Model of src/lib/ai-providers/grok-adapter.ts: the Grok provider        *)
(* adapter (schema sanitizer, payload builder, text extraction, and the    *)
(* generate() call with its abort controller and timer).                   *)
(***************************************************************************)
EXTENDS Integers, Sequences, FiniteSets, TLC

(***************************************************************************)
(* JavaScript values.  Every value is a record of one shape:               *)
(*   t  the kind: undefined, null, string, number, boolean, array, object  *)
(*   s  the text of a string, n the value of a number or boolean (0/1)     *)
(*   c  the children: array items (k = "") or object entries, in order     *)
(***************************************************************************)
Undefined == [t |-> "undefined", s |-> "", n |-> 0, c |-> <<>>]
Null == [t |-> "null", s |-> "", n |-> 0, c |-> <<>>]
Str(x) == [t |-> "string", s |-> x, n |-> 0, c |-> <<>>]
Num(x) == [t |-> "number", s |-> "", n |-> x, c |-> <<>>]
False == [t |-> "boolean", s |-> "", n |-> 0, c |-> <<>>]
Entry(key, value) == [k |-> key, val |-> value]
Arr(items) == [t |-> "array", s |-> "", n |-> 0,
               c |-> [i \in 1..Len(items) |-> Entry("", items[i])]]
Obj(entries) == [t |-> "object", s |-> "", n |-> 0, c |-> entries]

\* typeof v
TypeOf(v) == IF v.t \in {"null", "array", "object"} THEN "object" ELSE v.t
\* !v
Falsy(v) ==
    \/ v.t \in {"undefined", "null"}
    \/ v.t = "string" /\ v.s = ""
    \/ v.t \in {"number", "boolean"} /\ v.n = 0
\* Array.isArray(v)
IsArray(v) == v.t = "array"
\* v === undefined || v === null (the left side of ?? and ?.)
Nullish(v) == v.t \in {"undefined", "null"}
\* o.key (o?.key when o is nullish): the own property, else undefined
Get(o, key) ==
    IF o.t = "object" /\ \E i \in 1..Len(o.c) : o.c[i].k = key
    THEN o.c[CHOOSE i \in 1..Len(o.c) : o.c[i].k = key].val
    ELSE Undefined
\* typeof v === 'string'
IsString(v) == TypeOf(v) = "string"
\* typeof v === 'number'
IsNumber(v) == TypeOf(v) = "number"

(***************************************************************************)
(* sanitizeSchemaForGrok                                                   *)
(***************************************************************************)
UNSUPPORTED_SCHEMA_PROPS ==
    {"minLength", "maxLength", "minItems", "maxItems",
     "minContains", "maxContains", "$schema"}

\* the entries of an object kept by the loop of lines 29-32, in order
RECURSIVE KeptEntries(_)
KeptEntries(es) ==
    IF es = <<>> THEN <<>>
    ELSE IF Head(es).k \in UNSUPPORTED_SCHEMA_PROPS THEN KeptEntries(Tail(es))
    ELSE <<Head(es)>> \o KeptEntries(Tail(es))

\* a plausible slip: arrays are returned as they are, not mapped
RECURSIVE sanitizeShallowArrays(_)
sanitizeShallowArrays(schema) ==
    IF Falsy(schema) \/ TypeOf(schema) # "object" THEN schema
    ELSE IF IsArray(schema) THEN schema
    ELSE LET kept == KeptEntries(schema.c)
         IN Obj([i \in 1..Len(kept) |->
                   Entry(kept[i].k, sanitizeShallowArrays(kept[i].val))])

RECURSIVE sanitizeSchemaForGrok(_)
sanitizeSchemaForGrok(schema) ==
    IF Falsy(schema) \/ TypeOf(schema) # "object" THEN schema
    ELSE IF IsArray(schema)
    THEN Arr([i \in 1..Len(schema.c) |-> sanitizeSchemaForGrok(schema.c[i].val)])
    ELSE LET kept == KeptEntries(schema.c)
         IN Obj([i \in 1..Len(kept) |->
                   Entry(kept[i].k, sanitizeSchemaForGrok(kept[i].val))])

(***************************************************************************)
(* ensureSchemaName: a name is absent or a string, kept as its characters  *)
(***************************************************************************)
NoName == [defined |-> FALSE, chars |-> <<>>]
Name(cs) == [defined |-> TRUE, chars |-> cs]
WhiteSpace == {" ", "\t", "\n"}

RECURSIVE TrimStart(_)
TrimStart(cs) ==
    IF cs # <<>> /\ Head(cs) \in WhiteSpace THEN TrimStart(Tail(cs)) ELSE cs
RECURSIVE TrimEnd(_)
TrimEnd(cs) ==
    IF cs # <<>> /\ cs[Len(cs)] \in WhiteSpace
    THEN TrimEnd(SubSeq(cs, 1, Len(cs) - 1)) ELSE cs
\* String.prototype.trim
Trim(cs) == TrimEnd(TrimStart(cs))

ResponseSchema == <<"R", "e", "s", "p", "o", "n", "s", "e", "S", "c", "h", "e", "m", "a">>

ensureSchemaName(name) ==
    IF name.defined /\ name.chars # <<>> /\ Len(Trim(name.chars)) > 0
    THEN Trim(name.chars)
    ELSE ResponseSchema

(***************************************************************************)
(* extractTextFromChoice                                                   *)
(***************************************************************************)
NoMatch == [found |-> FALSE, text |-> ""]
Match(str) == [found |-> TRUE, text |-> str]

\* a plausible slip: an empty-string part ends the scan as a match
RECURSIVE ScanPartsEmptyMatches(_)
ScanPartsEmptyMatches(parts) ==
    IF parts = <<>> THEN NoMatch
    ELSE LET part == Head(parts).val
         IN IF IsString(part) THEN Match(part.s)
            ELSE IF Falsy(part) THEN ScanPartsEmptyMatches(Tail(parts))
            ELSE IF IsString(Get(part, "text")) THEN Match(Get(part, "text").s)
            ELSE IF IsString(Get(part, "output_text"))
            THEN Match(Get(part, "output_text").s)
            ELSE IF IsString(Get(part, "data")) THEN Match(Get(part, "data").s)
            ELSE ScanPartsEmptyMatches(Tail(parts))

\* the loop of lines 69-83 over the parts of a content array
RECURSIVE ScanParts(_)
ScanParts(parts) ==
    IF parts = <<>> THEN NoMatch
    ELSE LET part == Head(parts).val
         IN IF Falsy(part) THEN ScanParts(Tail(parts))
            ELSE IF IsString(part) THEN Match(part.s)
            ELSE IF IsString(Get(part, "text")) THEN Match(Get(part, "text").s)
            ELSE IF IsString(Get(part, "output_text"))
            THEN Match(Get(part, "output_text").s)
            ELSE IF IsString(Get(part, "data")) THEN Match(Get(part, "data").s)
            ELSE ScanParts(Tail(parts))

extractTextFromChoice(choice) ==
    IF Falsy(choice) THEN ""
    ELSE LET message ==
                 IF ~Nullish(Get(choice, "message")) THEN Get(choice, "message")
                 ELSE IF ~Nullish(Get(choice, "delta")) THEN Get(choice, "delta")
                 ELSE Obj(<<>>)
             content == Get(message, "content")
             scan == IF IsArray(content) THEN ScanParts(content.c) ELSE NoMatch
         IN IF IsString(content) THEN content.s
            ELSE IF scan.found THEN scan.text
            ELSE IF IsString(Get(message, "text")) THEN Get(message, "text").s
            ELSE ""

(***************************************************************************)
(* normalizeUsage                                                          *)
(***************************************************************************)
\* a ?? b ?? c ?? d
RECURSIVE Coalesce(_)
Coalesce(values) ==
    IF Len(values) = 1 \/ ~Nullish(Head(values)) THEN Head(values)
    ELSE Coalesce(Tail(values))

normalizeUsage(raw, latencyMs) ==
    IF Falsy(raw)
    THEN IF ~Falsy(latencyMs) THEN Obj(<<Entry("latencyMs", latencyMs)>>)
         ELSE Undefined
    ELSE LET promptTokens ==
                 Coalesce(<<Get(raw, "prompt_tokens"), Get(raw, "promptTokens"),
                            Get(raw, "input_tokens"), Get(raw, "inputTokens")>>)
             completionTokens ==
                 Coalesce(<<Get(raw, "completion_tokens"), Get(raw, "completionTokens"),
                            Get(raw, "output_tokens"), Get(raw, "outputTokens")>>)
             totalTokens ==
                 Coalesce(<<Get(raw, "total_tokens"), Get(raw, "totalTokens"),
                            IF IsNumber(promptTokens) /\ IsNumber(completionTokens)
                            THEN Num(promptTokens.n + completionTokens.n)
                            ELSE Undefined>>)
         IN Obj(<<Entry("promptTokens", promptTokens),
                  Entry("completionTokens", completionTokens),
                  Entry("totalTokens", totalTokens),
                  Entry("latencyMs", latencyMs)>>)

(***************************************************************************)
(* buildPayload                                                            *)
(***************************************************************************)
DEFAULT_MODEL == Str("grok-4-1-fast-non-reasoning")
PROVIDER_NAME == "grok"

\* A schema descriptor is opaque to the adapter.  z.toJSONSchema either
\* returns a JSON-Schema document or throws (an Error, or some other value).
ZodOf(doc) == Obj(<<Entry("~document", doc)>>)
ZodThrowing(thrown) == Obj(<<Entry("~throws", thrown)>>)
ErrorValue(msg) == Obj(<<Entry("message", Str(msg))>>)
toJSONSchema(zodSchema) ==
    IF Get(zodSchema, "~throws") # Undefined
    THEN [threw |-> TRUE, thrown |-> Get(zodSchema, "~throws"), doc |-> Undefined]
    ELSE [threw |-> FALSE, thrown |-> Undefined, doc |-> Get(zodSchema, "~document")]

\* error instanceof Error (thrown values here are Error objects or strings)
InstanceOfError(thrown) == thrown.t = "object"

NoFields == <<>>
Thrown(message) == [threw |-> TRUE, error |-> message, payload |-> NoFields]
Returned(fields) == [threw |-> FALSE, error |-> <<>>, payload |-> fields]

\* a plausible slip: `if (params.x)` instead of `typeof params.x === 'number'`
SamplingFieldsTruthy(params) ==
    (IF ~Falsy(params.temperature)
     THEN "temperature" :> params.temperature ELSE NoFields)
    @@ (IF ~Falsy(params.topP) THEN "top_p" :> params.topP ELSE NoFields)
    @@ (IF ~Falsy(params.maxOutputTokens)
        THEN "max_output_tokens" :> params.maxOutputTokens ELSE NoFields)

SamplingFields(params) ==
    (IF IsNumber(params.temperature)
     THEN "temperature" :> params.temperature ELSE NoFields)
    @@ (IF IsNumber(params.topP) THEN "top_p" :> params.topP ELSE NoFields)
    @@ (IF IsNumber(params.maxOutputTokens)
        THEN "max_output_tokens" :> params.maxOutputTokens ELSE NoFields)

buildPayload(params) ==
    LET base ==
            "model" :> (IF Nullish(params.model) THEN DEFAULT_MODEL ELSE params.model)
            @@ "messages" :> <<[role |-> "user", content |-> params.prompt]>>
        converted == toJSONSchema(params.zodSchema)
    IN IF Falsy(params.zodSchema) THEN Returned(base @@ SamplingFields(params))
       ELSE IF converted.threw
       THEN Thrown(IF InstanceOfError(converted.thrown)
                   THEN <<Str("Failed to convert schema: "),
                          Get(converted.thrown, "message")>>
                   ELSE <<Str("Failed to convert schema")>>)
       ELSE Returned(
              base @@ SamplingFields(params)
              @@ "response_format" :>
                   [type |-> "json_schema",
                    json_schema |->
                      [name |-> ensureSchemaName(params.schemaName),
                       schema |-> sanitizeSchemaForGrok(converted.doc)]])

(***************************************************************************)
(* State                                                                   *)
(***************************************************************************)
VARIABLES
    \* sanitizer: the caller's tree, the tree object after the calls, results
    spc, input, schema, sanitized, sanitizedTwice,
    \* payload builder: the params and what buildPayload returned or threw
    ppc, bparams, built,
    \* text extraction: the choice and the extracted text
    epc, choice, text,
    \* usage accounting: the raw usage, the latency and the normalized usage
    upc, rawUsage, latency, usage,
    \* the runtime around the adapter: who calls, what the backend may answer,
    \* whether AbortController exists and whether fetch honors its signal
    env,
    \* the adapter's configuration, fixed by createGrokAdapter
    config,
    \* Date.now(), the AbortControllers made so far (aborted or not) and the
    \* timers set so far (pending, fired or cleared)
    clock, controllers, timers,
    \* per generate call: where it is, its params, its controller and timer
    \* (0: none), requestStartedAt, the requests it issued, what came back,
    \* how it settled, and where it was when its timer fired ("" if never)
    pc, callParams, controller, timer, requestStartedAt, sent, response, outcome,
    firedWhile

sanitizerVars == <<spc, input, schema, sanitized, sanitizedTwice>>
payloadVars == <<ppc, bparams, built>>
extractVars == <<epc, choice, text>>
usageVars == <<upc, rawUsage, latency, usage>>
runtimeVars == <<env, config, clock, controllers, timers>>
callVars == <<pc, callParams, controller, timer, requestStartedAt, sent, response,
              outcome, firedWhile>>
generateVars == <<runtimeVars, callVars>>
vars == <<sanitizerVars, payloadVars, extractVars, usageVars, generateVars>>

SanitizerIdle ==
    /\ spc = "off"
    /\ input = Undefined
    /\ schema = Undefined
    /\ sanitized = Undefined
    /\ sanitizedTwice = Undefined

PayloadIdle ==
    /\ ppc = "off"
    /\ bparams = <<>>
    /\ built = <<>>

ExtractIdle ==
    /\ epc = "off"
    /\ choice = Undefined
    /\ text = ""

UsageIdle ==
    /\ upc = "off"
    /\ rawUsage = Undefined
    /\ latency = Undefined
    /\ usage = Undefined

GenerateIdle ==
    /\ env = <<>>
    /\ config = <<>>
    /\ clock = 0
    /\ controllers = <<>>
    /\ timers = <<>>
    /\ pc = <<>>
    /\ callParams = <<>>
    /\ controller = <<>>
    /\ timer = <<>>
    /\ requestStartedAt = <<>>
    /\ sent = <<>>
    /\ response = <<>>
    /\ outcome = <<>>
    /\ firedWhile = <<>>

(***************************************************************************)
(* Schema trees: nested arrays and objects of depth at most MaxDepth  *)
(***************************************************************************)
MaxDepth == 3

SchemaLeaves ==
    {Str("string"), Num(0), Null,
     Obj(<<Entry("type", Str("string")), Entry("minLength", Num(1))>>)}

Wrappings(tree) ==
    {Arr(<<tree>>)}
    \cup {Arr(<<l, tree>>) : l \in SchemaLeaves}
    \cup {Obj(<<Entry(key, tree)>>) : key \in {"items", "maxItems"}}
    \cup {Obj(<<Entry(s, l), Entry(key, tree)>>) :
            s \in {"$schema"}, l \in SchemaLeaves, key \in {"items", "maxItems"}}
    \cup {Obj(<<Entry(key, tree), Entry(s, l)>>) :
            s \in {"type"}, l \in SchemaLeaves, key \in {"properties"}}

RECURSIVE TreeDepth(_)
TreeDepth(tree) ==
    IF tree.c = <<>> THEN 0
    ELSE 1 + (LET ds == {TreeDepth(tree.c[i].val) : i \in 1..Len(tree.c)}
              IN CHOOSE d \in ds : \A e \in ds : e <= d)

SanitizeInit ==
    /\ spc = "build"
    /\ input \in SchemaLeaves
    /\ schema = input
    /\ sanitized = Undefined
    /\ sanitizedTwice = Undefined
    /\ PayloadIdle
    /\ ExtractIdle
    /\ GenerateIdle
    /\ UsageIdle

\* the caller builds a deeper tree
Wrap ==
    /\ spc = "build"
    /\ TreeDepth(input) < MaxDepth
    /\ \E w \in Wrappings(input) : input' = w /\ schema' = w
    /\ UNCHANGED <<spc, sanitized, sanitizedTwice, payloadVars, extractVars, usageVars, generateVars>>

\* sanitized = sanitizeSchemaForGrok(schema); the argument object is only read
Sanitize ==
    /\ spc = "build"
    /\ sanitized' = sanitizeSchemaForGrok(schema)
    /\ spc' = "once"
    /\ UNCHANGED <<input, schema, sanitizedTwice, payloadVars, extractVars, usageVars, generateVars>>

\* sanitizedTwice = sanitizeSchemaForGrok(sanitized)
SanitizeAgain ==
    /\ spc = "once"
    /\ sanitizedTwice' = sanitizeSchemaForGrok(sanitized)
    /\ spc' = "twice"
    /\ UNCHANGED <<input, schema, sanitized, payloadVars, extractVars, usageVars, generateVars>>

SanitizeNext == Wrap \/ Sanitize \/ SanitizeAgain

SpecSanitize == SanitizeInit /\ [][SanitizeNext]_vars

(***************************************************************************)
(* C8: for every schema tree, the sanitized tree holds no banned key at    *)
(* any depth (inside arrays too), every node not under a banned key is     *)
(* kept at its place with its value, the input tree is not changed, and    *)
(* sanitizing the result again changes nothing.                            *)
(***************************************************************************)
RECURSIVE HasBannedKey(_)
HasBannedKey(tree) ==
    \E i \in 1..Len(tree.c) :
        \/ tree.t = "object" /\ tree.c[i].k \in UNSUPPORTED_SCHEMA_PROPS
        \/ HasBannedKey(tree.c[i].val)

\* every node of a tree with the path of keys and indexes leading to it
RECURSIVE Nodes(_, _)
Nodes(tree, path) ==
    {[path |-> path, t |-> tree.t, s |-> tree.s, n |-> tree.n]}
    \cup UNION {Nodes(tree.c[i].val,
                      Append(path, IF tree.t = "array"
                                   THEN [k |-> "", i |-> i]
                                   ELSE [k |-> tree.c[i].k, i |-> 0])) :
                i \in 1..Len(tree.c)}

UnderBannedKey(path) ==
    \E j \in 1..Len(path) : path[j].i = 0 /\ path[j].k \in UNSUPPORTED_SCHEMA_PROPS

C8_Sanitized ==
    /\ spc \in {"once", "twice"} =>
          /\ ~HasBannedKey(sanitized)
          /\ Nodes(sanitized, <<>>) =
                {nd \in Nodes(input, <<>>) : ~UnderBannedKey(nd.path)}
          /\ schema = input
    /\ spc = "twice" => sanitizedTwice = sanitized

C8_Witness ==
    /\ spc = "twice"
    /\ IsArray(input)
    /\ \E i \in 1..Len(input.c) : IsArray(input.c[i].val) /\ HasBannedKey(input.c[i].val)
    /\ sanitized # input

(***************************************************************************)
(* Payload builder                                                         *)
(***************************************************************************)
SampleSchema ==
    Obj(<<Entry("$schema", Str("draft")), Entry("type", Str("object")),
          Entry("properties",
                Obj(<<Entry("title", Obj(<<Entry("type", Str("string")),
                                            Entry("maxLength", Num(5))>>))>>))>>)

ParamSpace ==
    [prompt : {Str("hi")},
     model : {Undefined, Str("grok-x")},
     temperature : {Undefined, Num(0), Num(1), Str("1")},
     topP : {Undefined, Num(0), Num(1), Str("1")},
     maxOutputTokens : {Undefined, Num(256), Null},
     timeoutMs : {Undefined},
     zodSchema : {Undefined, ZodOf(SampleSchema),
                  ZodThrowing(ErrorValue("bad schema")), ZodThrowing(Str("oops"))},
     schemaName : {NoName, Name(<<" ", " ">>), Name(<<" ", "F", "o", "o", " ">>)}]

PayloadInit ==
    /\ ppc = "params"
    /\ bparams \in ParamSpace
    /\ built = <<>>
    /\ SanitizerIdle
    /\ ExtractIdle
    /\ GenerateIdle
    /\ UsageIdle

BuildPayload ==
    /\ ppc = "params"
    /\ built' = buildPayload(bparams)
    /\ ppc' = "built"
    /\ UNCHANGED <<bparams, sanitizerVars, extractVars, usageVars, generateVars>>

PayloadNext == BuildPayload

SpecPayload == PayloadInit /\ [][PayloadNext]_vars

(***************************************************************************)
(* C9: a payload that buildPayload returns holds model (params.model, or   *)
(* the default model when absent) and exactly one user message with the    *)
(* prompt; temperature, top_p, max_output_tokens are present exactly when  *)
(* the param is a number, with its value; response_format is present       *)
(* exactly when a schema descriptor is supplied; nothing else is emitted.  *)
(* buildPayload throws only when the descriptor's conversion throws.       *)
(***************************************************************************)
Present(cond, field) == IF cond THEN {field} ELSE {}

C9_SparsePayload ==
    ppc = "built" =>
        LET p == built.payload
        IN /\ built.threw <=>
                 (bparams.zodSchema # Undefined /\ toJSONSchema(bparams.zodSchema).threw)
           /\ ~built.threw =>
                 /\ DOMAIN p =
                       {"model", "messages"}
                       \cup Present(bparams.temperature.t = "number", "temperature")
                       \cup Present(bparams.topP.t = "number", "top_p")
                       \cup Present(bparams.maxOutputTokens.t = "number",
                                    "max_output_tokens")
                       \cup Present(bparams.zodSchema # Undefined, "response_format")
                 /\ p.model = (IF bparams.model = Undefined
                               THEN Str("grok-4-1-fast-non-reasoning")
                               ELSE bparams.model)
                 /\ p.messages = <<[role |-> "user", content |-> bparams.prompt]>>
                 /\ "temperature" \in DOMAIN p => p.temperature = bparams.temperature
                 /\ "top_p" \in DOMAIN p => p.top_p = bparams.topP
                 /\ "max_output_tokens" \in DOMAIN p =>
                       p.max_output_tokens = bparams.maxOutputTokens

C9_Witness ==
    /\ ppc = "built"
    /\ ~built.threw
    /\ bparams.temperature = Num(0)
    /\ bparams.topP = Undefined
    /\ bparams.zodSchema = Undefined
    /\ DOMAIN built.payload = {"model", "messages", "temperature"}

(***************************************************************************)
(* Text extraction                                                         *)
(***************************************************************************)
MaxParts == 2

Parts ==
    {Null, Str(""), Str("p"),
     Obj(<<Entry("type", Str("x"))>>),
     Obj(<<Entry("text", Str("hi"))>>),
     Obj(<<Entry("text", Str(""))>>),
     Obj(<<Entry("data", Str("d")), Entry("output_text", Str("o"))>>),
     Obj(<<Entry("text", Num(5)), Entry("data", Str("d"))>>)}

PartLists == UNION {[1..len -> Parts] : len \in 0..MaxParts}

Contents ==
    {Undefined, Str("hello"), Str(""), Num(7)} \cup {Arr(ps) : ps \in PartLists}

Messages ==
    {Obj(<<Entry("content", ct)>>) : ct \in Contents}
    \cup {Obj(<<Entry("content", ct), Entry("text", tx)>>) :
            ct \in Contents, tx \in {Str("t"), Num(3)}}

Choices ==
    {Undefined, Null, Obj(<<>>)}
    \cup {Obj(<<Entry("message", m)>>) : m \in Messages}
    \cup {Obj(<<Entry("delta", m)>>) : m \in Messages}
    \cup {Obj(<<Entry("message", Null), Entry("delta", m)>>) : m \in Messages}
    \cup {Obj(<<Entry("message", m),
                Entry("delta", Obj(<<Entry("content", Str("from delta"))>>))>>) :
            m \in Messages}

ExtractInit ==
    /\ epc = "choice"
    /\ choice \in Choices
    /\ text = ""
    /\ SanitizerIdle
    /\ PayloadIdle
    /\ GenerateIdle
    /\ UsageIdle

Extract ==
    /\ epc = "choice"
    /\ text' = extractTextFromChoice(choice)
    /\ epc' = "done"
    /\ UNCHANGED <<choice, sanitizerVars, payloadVars, usageVars, generateVars>>

ExtractNext == Extract

SpecExtract == ExtractInit /\ [][ExtractNext]_vars

(***************************************************************************)
(* normalizeUsage applied to the usage objects a response can carry        *)
(***************************************************************************)
\* one token count of a usage object: absent, or a value under one spelling
TokenFields(keys, values) ==
    {<<>>} \cup {<<Entry(k, v)>> : k \in keys, v \in values}

RawUsages ==
    {Undefined, Null}
    \cup {Obj(p \o c \o t) :
            p \in TokenFields({"prompt_tokens", "inputTokens"},
                              {Num(10), Str("10"), Null}),
            c \in TokenFields({"completion_tokens", "outputTokens"},
                              {Num(5), Null}),
            t \in TokenFields({"total_tokens", "totalTokens"},
                              {Num(99), Num(0), Null})}
    \cup {Obj(<<Entry("promptTokens", Num(2)), Entry("prompt_tokens", Num(1)),
                Entry("output_tokens", Num(4)), Entry("completionTokens", Num(3))>>),
          Obj(<<Entry("totalTokens", Num(8)), Entry("total_tokens", Num(9))>>),
          Obj(<<Entry("total_tokens", Null), Entry("totalTokens", Num(8)),
                Entry("input_tokens", Num(1)), Entry("output_tokens", Num(4))>>)}

\* Date.now() - requestStartedAt, or no latency at all
Latencies == {Undefined, Num(0), Num(42)}

UsageInit ==
    /\ upc = "args"
    /\ rawUsage \in RawUsages
    /\ latency \in Latencies
    /\ usage = Undefined
    /\ SanitizerIdle
    /\ PayloadIdle
    /\ ExtractIdle
    /\ GenerateIdle

NormalizeUsage ==
    /\ upc = "args"
    /\ usage' = normalizeUsage(rawUsage, latency)
    /\ upc' = "done"
    /\ UNCHANGED <<rawUsage, latency, sanitizerVars, payloadVars, extractVars,
                   generateVars>>

UsageNext == NormalizeUsage

SpecUsage == UsageInit /\ [][UsageNext]_vars

\* the message ?? delta of a choice, and the field a matching part gives
MessageOrDelta(ch) ==
    IF Get(ch, "message").t \notin {"undefined", "null"} THEN Get(ch, "message")
    ELSE IF Get(ch, "delta").t \notin {"undefined", "null"} THEN Get(ch, "delta")
    ELSE Obj(<<>>)
CarriesText(part) ==
    \E f \in {"text", "output_text", "data"} : Get(part, f).t = "string"
PartText(part) ==
    IF part.t = "string" THEN part.s
    ELSE IF Get(part, "text").t = "string" THEN Get(part, "text").s
    ELSE IF Get(part, "output_text").t = "string" THEN Get(part, "output_text").s
    ELSE Get(part, "data").s

\* the text the ordered strategies give, for a notion Matches of a matching part
StrategyText(ch, Matches(_)) ==
    LET message == MessageOrDelta(ch)
        content == Get(message, "content")
        hits == IF content.t = "array"
                THEN {i \in 1..Len(content.c) : Matches(content.c[i].val)}
                ELSE {}
        first == CHOOSE i \in hits : \A j \in hits : i <= j
    IN IF ch.t \in {"undefined", "null"} THEN ""
       ELSE IF content.t = "string" THEN content.s
       ELSE IF hits # {} THEN PartText(content.c[first].val)
       ELSE IF Get(message, "text").t = "string" THEN Get(message, "text").s
       ELSE ""

MatchesAsClaimed(part) == part.t = "string" \/ CarriesText(part)
MatchesNonEmpty(part) == (part.t = "string" /\ part.s # "") \/ CarriesText(part)

(***************************************************************************)
(* C10 as claimed: string content is returned directly; else the text of   *)
(* the first part of a content list that is itself a string or carries a   *)
(* string under text, output_text or data; else the message's string text  *)
(* field; else the empty string.                                           *)
(***************************************************************************)
C10_AsClaimed ==
    epc = "done" => text = StrategyText(choice, MatchesAsClaimed)

(***************************************************************************)
(* C10 amended: as claimed, except that a part that is the empty string    *)
(* is skipped like a null part: the first part that is a non-empty string  *)
(* or carries a string (empty or not) under text, output_text or data (in  *)
(* that order of preference) gives the result; when no part matches, the   *)
(* message's string text field is used, else the empty string.             *)
(***************************************************************************)
C10_FirstMatchWins ==
    epc = "done" => text = StrategyText(choice, MatchesNonEmpty)

C10_Witness ==
    /\ epc = "done"
    /\ Get(Get(choice, "message"), "content") =
          Arr(<<Str(""), Obj(<<Entry("text", Str("hi"))>>)>>)
    /\ Get(Get(choice, "message"), "text") = Str("t")
    /\ text = "hi"

(***************************************************************************)
(* generate: the abort controller and its timer                            *)
(***************************************************************************)
MaxCalls == 2
MaxClock == 1

\* line 44: a controller and a timer are made only for a positive timeoutMs
\* in a runtime that has AbortController
Arms(timeoutMs, hasAbortController) ==
    ~(Falsy(timeoutMs) \/ timeoutMs.n <= 0 \/ ~hasAbortController)

\* Controllers and timers are objects of the runtime.  Each is named by the
\* call that made it: a call makes at most one of each, so the name is fresh.

\* a plausible slip: one controller kept for the whole adapter
SharedController(ctls, c) ==
    [id |-> 1, all |-> IF 1 \in DOMAIN ctls THEN ctls ELSE (1 :> FALSE) @@ ctls]

\* new AbortController(): a controller of this call, not aborted
NewController(ctls, c) ==
    [id |-> c, all |-> (c :> FALSE) @@ ctls]

\* setTimeout(() => controller.abort(), timeoutMs): a new pending timer
SetTimeout(ts, ctl, c) ==
    [id |-> c, all |-> (c :> [state |-> "pending", ctl |-> ctl]) @@ ts]

\* clear = () => clearTimeout(timer); without a timer, () => undefined
clear(ts, handle) ==
    IF handle = 0 THEN ts
    ELSE [ts EXCEPT ![handle].state = IF @ = "pending" THEN "cleared" ELSE @]

(***************************************************************************)
(* generate: errors and results                                            *)
(***************************************************************************)
Pending == [kind |-> "pending"]
Error(pieces) == [kind |-> "error", name |-> "Error", message |-> pieces]
\* what the transport throws: an aborted request, a network failure, a body
\* that cannot be read
AbortError ==
    [kind |-> "error", name |-> "AbortError", message |-> <<Str("aborted")>>]
FetchFailed ==
    [kind |-> "error", name |-> "TypeError", message |-> <<Str("fetch failed")>>]
BodyFailed ==
    [kind |-> "error", name |-> "TypeError", message |-> <<Str("terminated")>>]
Result(value) == [kind |-> "result", value |-> value]

\* catch (error): an AbortError DOMException becomes the timeout error,
\* anything else is thrown again
Catch(error) ==
    IF error.name = "AbortError" THEN Error(<<Str("Grok request timed out.")>>)
    ELSE error

\* a plausible slip: the timer is cleared on the successful path only
clearOnSuccess(ts, handle, settled) ==
    IF settled.kind = "result" THEN clear(ts, handle) ELSE ts

\* finally { clear() }
Finally(ts, handle, settled) == clear(ts, handle)

(***************************************************************************)
(* generate: the response                                                  *)
(***************************************************************************)
\* A body text is empty, or not JSON, or the JSON text of a document.
EmptyText == [kind |-> "empty", doc |-> Undefined]
GarbageText == [kind |-> "garbage", doc |-> Undefined]
JsonText(doc) == [kind |-> "json", doc |-> doc]

\* a plausible slip: a parse failure is swallowed and parsed left undefined
ParseBodyLenient(responseText) ==
    IF responseText.kind = "json"
    THEN [threw |-> FALSE, value |-> responseText.doc]
    ELSE [threw |-> FALSE, value |-> Undefined]

\* lines 198-205: parsed = responseText ? JSON.parse(responseText) : undefined
ParseBody(responseText) ==
    IF responseText.kind = "empty" THEN [threw |-> FALSE, value |-> Undefined]
    ELSE IF responseText.kind = "json"
    THEN [threw |-> FALSE, value |-> responseText.doc]
    ELSE [threw |-> TRUE, value |-> Undefined]

\* a || b || c
RECURSIVE Or(_)
Or(values) ==
    IF Len(values) = 1 \/ ~Falsy(Head(values)) THEN Head(values)
    ELSE Or(Tail(values))

\* a plausible slip: only the top-level code and message are read
UpstreamFailureTopLevel(statusText, parsed) ==
    LET message == Or(<<Get(parsed, "message"), Str(statusText), Str("Unknown error")>>)
        code == Get(parsed, "code")
    IN Error(<<Str("Grok API error")>>
             \o (IF ~Falsy(code) THEN <<Str(" ("), code, Str(")")>> ELSE <<>>)
             \o <<Str(": "), message>>)

\* lines 208-216: the error thrown for a response that is not ok
UpstreamFailure(statusText, parsed) ==
    LET message == Or(<<Get(Get(parsed, "error"), "message"), Get(parsed, "message"),
                        Str(statusText), Str("Unknown error")>>)
        code == Or(<<Get(Get(parsed, "error"), "code"), Get(parsed, "code")>>)
    IN Error(<<Str("Grok API error")>>
             \o (IF ~Falsy(code) THEN <<Str(" ("), code, Str(")")>> ELSE <<>>)
             \o <<Str(": "), message>>)

\* a plausible slip: the result is returned without the empty-content check
ResultUnchecked(content, parsed, payload, latencyMs) ==
    Result([content |-> content,
            rawResponse |-> parsed,
            provider |-> PROVIDER_NAME,
            model |-> IF Nullish(Get(parsed, "model")) THEN payload.model
                      ELSE Get(parsed, "model"),
            usage |-> normalizeUsage(Get(parsed, "usage"), Num(latencyMs))])

\* lines 225-235: an empty content throws, else the result
ResultOrEmpty(content, parsed, payload, latencyMs) ==
    IF content = "" THEN Error(<<Str("Grok API returned an empty response.")>>)
    ELSE Result([content |-> content,
                 rawResponse |-> parsed,
                 provider |-> PROVIDER_NAME,
                 model |-> IF Nullish(Get(parsed, "model")) THEN payload.model
                           ELSE Get(parsed, "model"),
                 usage |-> normalizeUsage(Get(parsed, "usage"), Num(latencyMs))])

\* lines 197-235: what generate does with a response whose body was read
HandleResponse(ok, statusText, responseText, payload, latencyMs) ==
    LET parse == ParseBody(responseText)
        parsed == parse.value
        choices == Get(parsed, "choices")
        first == IF IsArray(choices) /\ Len(choices.c) > 0 THEN choices.c[1].val
                 ELSE Undefined
    IN IF parse.threw THEN Error(<<Str("Grok API returned a non-JSON response.")>>)
       ELSE IF ~ok THEN UpstreamFailure(statusText, parsed)
       ELSE ResultOrEmpty(extractTextFromChoice(first), parsed, payload, latencyMs)

(***************************************************************************)
(* generate: the adapter and its calls                                     *)
(***************************************************************************)
\* createGrokAdapter with XAI_API_KEY set and no base-URL override
AdapterConfig ==
    [name |-> PROVIDER_NAME, defaultModel |-> DEFAULT_MODEL,
     apiKey |-> "xai-key", baseUrl |-> "https://api.x.ai/v1"]

\* a plausible slip: a failed attempt is sent again
fetchTwice(log, payload, signal) ==
    LET request == [url |-> config.baseUrl \o "/chat/completions",
                    method |-> "POST",
                    authorization |-> "Bearer " \o config.apiKey,
                    contentType |-> "application/json",
                    body |-> JsonText(payload),
                    signal |-> signal]
    IN log \o <<request, request>>

\* lines 187-195: the request a call issues
fetch(log, payload, signal) ==
    Append(log, [url |-> config.baseUrl \o "/chat/completions",
                 method |-> "POST",
                 authorization |-> "Bearer " \o config.apiKey,
                 contentType |-> "application/json",
                 body |-> JsonText(payload),
                 signal |-> signal])

NoParams == <<>>
NoResponse == [stage |-> "none", ok |-> FALSE, statusText |-> "", body |-> EmptyText]

\* controller?.signal aborted
Aborted(c) == controller[c] # 0 /\ controllers[controller[c]]
\* a transport that honors the signal rejects an aborted request
MustAbort(c) == Aborted(c) /\ env.honorsSignal

GenerateInitIn(e) ==
    /\ env = e
    /\ config = AdapterConfig
    /\ clock = 0
    /\ controllers = <<>>
    /\ timers = <<>>
    /\ pc = [c \in e.callers |-> "idle"]
    /\ callParams = [c \in e.callers |-> NoParams]
    /\ controller = [c \in e.callers |-> 0]
    /\ timer = [c \in e.callers |-> 0]
    /\ requestStartedAt = [c \in e.callers |-> 0]
    /\ sent = [c \in e.callers |-> <<>>]
    /\ response = [c \in e.callers |-> NoResponse]
    /\ outcome = [c \in e.callers |-> Pending]
    /\ firedWhile = [c \in e.callers |-> ""]
    /\ SanitizerIdle
    /\ PayloadIdle
    /\ ExtractIdle
    /\ UsageIdle

\* lines 182-195: generate(params) up to its first await.  A payload that
\* cannot be built throws before any request: catch, finally, rejected.
Generate(c, params) ==
    /\ pc[c] = "idle"
    /\ LET arms == Arms(params.timeoutMs, env.hasAbortController)
           ctl == NewController(controllers, c)
           tmr == SetTimeout(timers, ctl.id, c)
           handle == IF arms THEN tmr.id ELSE 0
           armed == IF arms THEN tmr.all ELSE timers
           payload == buildPayload(params)
           thrown == Catch(Error(payload.error))
       IN /\ controllers' = (IF arms THEN ctl.all ELSE controllers)
          /\ controller' = [controller EXCEPT ![c] = IF arms THEN ctl.id ELSE 0]
          /\ timer' = [timer EXCEPT ![c] = handle]
          /\ requestStartedAt' = [requestStartedAt EXCEPT ![c] = clock]
          /\ callParams' = [callParams EXCEPT ![c] = params]
          /\ IF payload.threw
             THEN /\ outcome' = [outcome EXCEPT ![c] = thrown]
                  /\ timers' = Finally(armed, handle, thrown)
                  /\ pc' = [pc EXCEPT ![c] = "settled"]
                  /\ sent' = sent
             ELSE /\ sent' = [sent EXCEPT ![c] =
                                 fetch(@, payload.payload, IF arms THEN ctl.id ELSE 0)]
                  /\ timers' = armed
                  /\ pc' = [pc EXCEPT ![c] = "awaitFetch"]
                  /\ outcome' = outcome
    /\ UNCHANGED <<env, config, clock, response, firedWhile>>
    /\ UNCHANGED <<sanitizerVars, payloadVars, extractVars, usageVars>>

\* lines 49-51: a pending timer fires and aborts its controller
TimerFires(t) ==
    /\ timers[t].state = "pending"
    /\ timers' = [timers EXCEPT ![t].state = "fired"]
    /\ controllers' = [controllers EXCEPT ![timers[t].ctl] = TRUE]
    /\ firedWhile' = [c \in DOMAIN firedWhile |->
                        IF timer[c] = t THEN pc[c] ELSE firedWhile[c]]
    /\ UNCHANGED <<env, config, clock, pc, callParams, controller, timer,
                   requestStartedAt, sent, response, outcome>>
    /\ UNCHANGED <<sanitizerVars, payloadVars, extractVars, usageVars>>

\* the call leaves its try block with `settled`: catch, finally, settle
Leave(c, thrownOrResult, resp) ==
    LET settled == IF thrownOrResult.kind = "error" THEN Catch(thrownOrResult)
                   ELSE thrownOrResult
    IN /\ outcome' = [outcome EXCEPT ![c] = settled]
       /\ timers' = Finally(timers, timer[c], settled)
       /\ pc' = [pc EXCEPT ![c] = "settled"]
       /\ response' = [response EXCEPT ![c] = resp]
       /\ UNCHANGED <<env, config, clock, controllers, callParams, controller, timer,
                      requestStartedAt, sent, firedWhile>>
       /\ UNCHANGED <<sanitizerVars, payloadVars, extractVars, usageVars>>

\* line 187: await fetch(...) resolves with the response's status
FetchResolves(c, r) ==
    /\ pc[c] = "awaitFetch"
    /\ ~MustAbort(c)
    /\ response' = [response EXCEPT ![c] = [r EXCEPT !.stage = "headers"]]
    /\ pc' = [pc EXCEPT ![c] = "awaitText"]
    /\ UNCHANGED <<env, config, clock, controllers, timers, callParams, controller,
                   timer, requestStartedAt, sent, outcome, firedWhile>>
    /\ UNCHANGED <<sanitizerVars, payloadVars, extractVars, usageVars>>

\* line 187: await fetch(...) rejects with a network failure
FetchRejects(c) ==
    /\ pc[c] = "awaitFetch"
    /\ ~MustAbort(c)
    /\ Leave(c, FetchFailed, [response[c] EXCEPT !.stage = "rejected"])

\* lines 187, 197: the aborted signal rejects the pending fetch or body read
Aborts(c) ==
    /\ pc[c] \in {"awaitFetch", "awaitText"}
    /\ MustAbort(c)
    /\ Leave(c, AbortError, response[c])

\* line 197: await response.text() rejects
TextRejects(c) ==
    /\ pc[c] = "awaitText"
    /\ ~MustAbort(c)
    /\ Leave(c, BodyFailed, [response[c] EXCEPT !.stage = "bodyFailed"])

\* lines 197-235: await response.text() resolves; parse, classify, return
TextResolves(c) ==
    /\ pc[c] = "awaitText"
    /\ ~MustAbort(c)
    /\ Leave(c,
             HandleResponse(response[c].ok, response[c].statusText, response[c].body,
                            sent[c][1].body.doc, clock - requestStartedAt[c]),
             [response[c] EXCEPT !.stage = "body"])

\* Date.now() advances
Tick ==
    /\ clock < MaxClock
    /\ clock' = clock + 1
    /\ UNCHANGED <<env, config, controllers, timers, callVars>>
    /\ UNCHANGED <<sanitizerVars, payloadVars, extractVars, usageVars>>

(***************************************************************************)
(* The backend's answers and the callers' params                           *)
(***************************************************************************)
Field(key, value) == Obj(<<Entry(key, value)>>)

ErrorDocs ==
    {Field("error", Obj(<<Entry("code", Str("rate_limited")),
                          Entry("message", Str("slow down"))>>)),
     Obj(<<Entry("code", Str("c2")), Entry("message", Str("m2"))>>),
     Obj(<<Entry("error", Obj(<<Entry("code", Str("")), Entry("message", Str(""))>>)),
           Entry("code", Str("c2")), Entry("message", Str("m2"))>>),
     Field("error", Field("code", Num(429))),
     Field("error", Str("bad")),
     Obj(<<>>)}

Choice(content) == Field("message", Field("content", content))

SuccessDocs ==
    {Obj(<<Entry("model", Str("m1")),
           Entry("choices", Arr(<<Choice(Str("4"))>>)),
           Entry("usage", Obj(<<Entry("prompt_tokens", Num(10)),
                                Entry("completion_tokens", Num(5))>>))>>),
     Field("choices", Arr(<<Choice(Arr(<<Field("type", Str("x")),
                                         Field("text", Str("hi"))>>))>>)),
     Field("choices", Arr(<<Choice(Str("")), Choice(Str("second"))>>)),
     Field("choices", Arr(<<>>)),
     Field("choices", Str("none")),
     Null}

Responses ==
    [stage : {"none"}, ok : BOOLEAN, statusText : {"", "Too Many Requests"},
     body : {EmptyText, GarbageText} \cup {JsonText(d) : d \in ErrorDocs \cup SuccessDocs}]

CallParams(timeouts, schemas) ==
    [prompt : {Str("x")}, model : {Undefined}, temperature : {Undefined},
     topP : {Undefined}, maxOutputTokens : {Undefined},
     timeoutMs : timeouts, zodSchema : schemas, schemaName : {NoName}]

\* a few answers and params, for several concurrent callers
ConcurrentResponses ==
    {r \in Responses :
        /\ r.statusText = "Too Many Requests"
        /\ \/ r.ok /\ Get(r.body.doc, "model") = Str("m1")
           \/ ~r.ok /\ r.body = GarbageText}

ResponsesOf(backend) == IF backend = "any" THEN Responses ELSE ConcurrentResponses

ParamsOf(callerSet) ==
    IF callerSet = "any"
    THEN CallParams({Undefined, Num(0), Num(-1), Num(5)},
                    {Undefined, ZodOf(SampleSchema), ZodThrowing(ErrorValue("bad schema"))})
    ELSE CallParams({Num(5)}, {Undefined})

Next ==
    \/ \E c \in env.callers, params \in ParamsOf(env.callerSet) : Generate(c, params)
    \/ \E t \in DOMAIN timers : TimerFires(t)
    \/ \E c \in env.callers, r \in ResponsesOf(env.backend) : FetchResolves(c, r)
    \/ \E c \in env.callers : FetchRejects(c)
    \/ \E c \in env.callers : Aborts(c)
    \/ \E c \in env.callers : TextRejects(c)
    \/ \E c \in env.callers : TextResolves(c)
    \/ Tick

\* one caller, every kind of answer, every runtime
Init ==
    \E honors \in BOOLEAN, hasAC \in BOOLEAN :
        GenerateInitIn([callers |-> {1}, callerSet |-> "any", backend |-> "any",
                        honorsSignal |-> honors, hasAbortController |-> hasAC])

Spec == Init /\ [][Next]_vars

\* MaxCalls concurrent callers of one adapter
ConcurrentInit ==
    \E honors \in BOOLEAN :
        GenerateInitIn([callers |-> 1..MaxCalls, callerSet |-> "few", backend |-> "few",
                        honorsSignal |-> honors, hasAbortController |-> TRUE])

SpecConcurrent == ConcurrentInit /\ [][Next]_vars

(***************************************************************************)
(* The error kinds of the specification, read off the thrown errors        *)
(***************************************************************************)
ErrorKind(o) ==
    IF o.kind # "error" THEN "none"
    ELSE IF o.name = "TypeError" THEN "TransportError"
    ELSE IF o.name = "AbortError" THEN "AbortError"
    ELSE IF Head(o.message) = Str("Grok request timed out.") THEN "TimeoutError"
    ELSE IF Head(o.message) = Str("Grok API returned a non-JSON response.")
    THEN "TransportError"
    ELSE IF Head(o.message) = Str("Grok API error") THEN "UpstreamError"
    ELSE IF Head(o.message) = Str("Grok API returned an empty response.")
    THEN "EmptyResponseError"
    ELSE "ValidationError"

Settled(c) == pc[c] = "settled"
TimerState(c) == IF timer[c] = 0 THEN "none" ELSE timers[timer[c]].state

(***************************************************************************)
(* C1: once a call has settled, on whatever path, its timer is not         *)
(* pending any more: it was cleared, or it had fired before.               *)
(***************************************************************************)
C1_TimerReleased ==
    \A c \in DOMAIN pc : Settled(c) => TimerState(c) \in {"none", "cleared", "fired"}

C1_Witness ==
    \E c \in DOMAIN pc :
        /\ Settled(c)
        /\ TimerState(c) = "cleared"
        /\ response[c].stage = "bodyFailed"
        /\ ErrorKind(outcome[c]) = "TransportError"

(***************************************************************************)
(* C2: a call whose timer fired while the request was still awaited        *)
(* settles with the timeout error, whether or not the transport honors     *)
(* the signal and whatever the request does later.                         *)
(***************************************************************************)
C2_TimeoutObserved ==
    \A c \in DOMAIN pc :
        Settled(c) /\ firedWhile[c] = "awaitFetch" =>
            ErrorKind(outcome[c]) = "TimeoutError"

(***************************************************************************)
(* C3 as claimed: every settled call has issued exactly one request.       *)
(***************************************************************************)
C3_ExactlyOneRequest ==
    \A c \in DOMAIN pc : Settled(c) => Len(sent[c]) = 1

(***************************************************************************)
(* C3 amended: no call issues two or more requests; a call that awaits     *)
(* or has settled has issued exactly one, except a call whose payload      *)
(* could not be built (the schema conversion threw), which has issued      *)
(* none.                                                                   *)
(***************************************************************************)
C3_AtMostOneRequest ==
    \A c \in DOMAIN pc :
        /\ Len(sent[c]) <= 1
        /\ pc[c] \in {"awaitFetch", "awaitText"} => Len(sent[c]) = 1
        /\ Settled(c) =>
              (Len(sent[c]) = 0 <=> ErrorKind(outcome[c]) = "ValidationError")
        /\ Settled(c) /\ Len(sent[c]) = 0 =>
              /\ callParams[c].zodSchema # Undefined
              /\ toJSONSchema(callParams[c].zodSchema).threw

C3_Witness ==
    \E c \in DOMAIN pc :
        /\ Settled(c)
        /\ Len(sent[c]) = 0
        /\ outcome[c] = Error(<<Str("Failed to convert schema: "), Str("bad schema")>>)

(***************************************************************************)
(* C4 and C5: the classification of a response                             *)
(***************************************************************************)
BodyRead(c) == Settled(c) /\ response[c].stage = "body"
StatusSeen(c) == Settled(c) /\ response[c].stage \in {"headers", "bodyFailed", "body"}
Provided(v) == ~Falsy(v)
UpstreamCode(doc) ==
    IF Provided(Get(Get(doc, "error"), "code")) THEN Get(Get(doc, "error"), "code")
    ELSE IF Provided(Get(doc, "code")) THEN Get(doc, "code")
    ELSE Undefined
BodyMessage(doc) ==
    IF Provided(Get(Get(doc, "error"), "message")) THEN Get(Get(doc, "error"), "message")
    ELSE IF Provided(Get(doc, "message")) THEN Get(doc, "message")
    ELSE Undefined
\* the code and the message an upstream error carries
CarriedCode(o) == IF Len(o.message) = 6 THEN o.message[3] ELSE Undefined
CarriedMessage(o) == o.message[Len(o.message)]

(***************************************************************************)
(* C4 as claimed: whenever the response has a non-success status, the      *)
(* call rejects with an UpstreamError that carries the body's code and     *)
(* message when it provides them, else the status line (when there is      *)
(* one) as message.                                                        *)
(***************************************************************************)
C4_AsClaimed ==
    \A c \in DOMAIN pc :
        BodyRead(c) /\ ~response[c].ok =>
            /\ ErrorKind(outcome[c]) = "UpstreamError"
            /\ CarriedCode(outcome[c]) = UpstreamCode(response[c].body.doc)
            /\ BodyMessage(response[c].body.doc) # Undefined =>
                  CarriedMessage(outcome[c]) = BodyMessage(response[c].body.doc)
            /\ BodyMessage(response[c].body.doc) = Undefined
                  /\ response[c].statusText # "" =>
                  CarriedMessage(outcome[c]) = Str(response[c].statusText)

(***************************************************************************)
(* C4 amended: with a non-success status a call never returns a result.    *)
(* When the body was read and is empty or parses as JSON, the call         *)
(* rejects with an UpstreamError carrying the first non-empty of           *)
(* error.code / top-level code (none otherwise) and, as message, the       *)
(* first non-empty of error.message, top-level message, the status text,   *)
(* else "Unknown error".  A body that is not JSON gives the parse          *)
(* failure's TransportError instead.                                       *)
(***************************************************************************)
C4_UpstreamError ==
    \A c \in DOMAIN pc :
        /\ StatusSeen(c) /\ ~response[c].ok => outcome[c].kind = "error"
        /\ BodyRead(c) /\ ~response[c].ok /\ response[c].body.kind # "garbage" =>
              /\ ErrorKind(outcome[c]) = "UpstreamError"
              /\ CarriedCode(outcome[c]) = UpstreamCode(response[c].body.doc)
              /\ CarriedMessage(outcome[c]) =
                    (IF BodyMessage(response[c].body.doc) # Undefined
                     THEN BodyMessage(response[c].body.doc)
                     ELSE IF response[c].statusText # ""
                     THEN Str(response[c].statusText)
                     ELSE Str("Unknown error"))
        /\ BodyRead(c) /\ ~response[c].ok /\ response[c].body.kind = "garbage" =>
              ErrorKind(outcome[c]) = "TransportError"

C4_Witness ==
    \E c \in DOMAIN pc :
        /\ BodyRead(c)
        /\ ~response[c].ok
        /\ Get(Get(response[c].body.doc, "error"), "code") = Str("rate_limited")
        /\ ErrorKind(outcome[c]) = "UpstreamError"
        /\ CarriedCode(outcome[c]) = Str("rate_limited")
        /\ CarriedMessage(outcome[c]) = Str("slow down")

(***************************************************************************)
(* C5 as claimed: a body that cannot be parsed, the empty body included,   *)
(* always gives a TransportError, whatever the status.                     *)
(***************************************************************************)
C5_AsClaimed ==
    \A c \in DOMAIN pc :
        BodyRead(c) /\ response[c].body.kind \in {"garbage", "empty"} =>
            ErrorKind(outcome[c]) = "TransportError"

(***************************************************************************)
(* C5 amended: a non-empty body that cannot be parsed always gives the     *)
(* TransportError of the parse failure, whatever the status, never an      *)
(* UpstreamError, an EmptyResponseError or a result.  An empty body is     *)
(* not parsed: it is treated as an absent document and gives an            *)
(* UpstreamError on a non-success status and an EmptyResponseError on a    *)
(* success status, never a result.                                         *)
(***************************************************************************)
C5_ParseFailureFirst ==
    \A c \in DOMAIN pc :
        /\ BodyRead(c) /\ response[c].body.kind = "garbage" =>
              outcome[c] = Error(<<Str("Grok API returned a non-JSON response.")>>)
        /\ BodyRead(c) /\ response[c].body.kind = "empty" =>
              ErrorKind(outcome[c]) =
                 (IF response[c].ok THEN "EmptyResponseError" ELSE "UpstreamError")

C5_Witness ==
    \E c \in DOMAIN pc :
        /\ BodyRead(c)
        /\ ~response[c].ok
        /\ response[c].body.kind = "garbage"
        /\ ErrorKind(outcome[c]) = "TransportError"

(***************************************************************************)
(* C6: a settled call has either rejected with an error or returned a      *)
(* result whose content is a non-empty string; a success response with a   *)
(* parsed body whose choices are no list, or an empty list, or whose       *)
(* first choice yields no text, rejects with EmptyResponseError.           *)
(***************************************************************************)
FirstChoiceText(doc) ==
    IF Get(doc, "choices").t = "array" /\ Get(doc, "choices").c # <<>>
    THEN StrategyText(Get(doc, "choices").c[1].val, MatchesNonEmpty)
    ELSE ""

C6_NoPartialSuccess ==
    \A c \in DOMAIN pc :
        /\ Settled(c) =>
              \/ outcome[c].kind = "error"
              \/ outcome[c].kind = "result" /\ outcome[c].value.content # ""
        /\ BodyRead(c) /\ response[c].ok /\ response[c].body.kind = "json"
              /\ FirstChoiceText(response[c].body.doc) = "" =>
                 ErrorKind(outcome[c]) = "EmptyResponseError"
        /\ BodyRead(c) /\ outcome[c].kind = "result" =>
              outcome[c].value.content = FirstChoiceText(response[c].body.doc)

C6_Witness ==
    \E c \in DOMAIN pc :
        /\ BodyRead(c)
        /\ response[c].ok
        /\ Get(response[c].body.doc, "choices") =
              Arr(<<Choice(Str("")), Choice(Str("second"))>>)
        /\ ErrorKind(outcome[c]) = "EmptyResponseError"

(***************************************************************************)
(* C7: concurrent calls on one adapter do not interfere: calls have        *)
(* controllers and timers of their own; a call's signal is aborted only    *)
(* by its own timer and its timer is cleared only by its own settling; a   *)
(* call times out only when its own timer fired; calls with the same       *)
(* params, the same response and the same fate of their own timer settle   *)
(* the same way; every request carries the adapter's configuration,        *)
(* which no call changes.                                                  *)
(***************************************************************************)
\* an outcome without the latency measured for it
Timeless(o) ==
    IF o.kind = "result" THEN [o.value EXCEPT !.usage = Undefined] ELSE o

C7_NoInterference ==
    /\ config = AdapterConfig
    /\ \A c \in DOMAIN pc :
          /\ Aborted(c) => TimerState(c) = "fired"
          /\ TimerState(c) = "cleared" => Settled(c)
          /\ Settled(c) => TimerState(c) # "pending"
          /\ ErrorKind(outcome[c]) = "TimeoutError" => TimerState(c) = "fired"
          /\ timer[c] # 0 => timers[timer[c]].ctl = controller[c]
          /\ \A i \in 1..Len(sent[c]) :
                /\ sent[c][i].authorization = "Bearer xai-key"
                /\ sent[c][i].url = "https://api.x.ai/v1/chat/completions"
                /\ sent[c][i].signal = controller[c]
    /\ \A c, d \in DOMAIN pc :
          /\ c # d /\ controller[c] # 0 => controller[c] # controller[d]
          /\ c # d /\ timer[c] # 0 => timer[c] # timer[d]
          /\ Settled(c) /\ Settled(d) /\ callParams[c] = callParams[d]
                /\ response[c] = response[d] /\ TimerState(c) = TimerState(d) =>
                   Timeless(outcome[c]) = Timeless(outcome[d])

C7_Witness ==
    \E c, d \in DOMAIN pc :
        /\ c # d
        /\ Settled(c) /\ Settled(d)
        /\ TimerState(c) = "fired" /\ ErrorKind(outcome[c]) = "TimeoutError"
        /\ TimerState(d) = "cleared" /\ outcome[d].kind = "result"
        /\ requestStartedAt[c] # requestStartedAt[d]

\* the explicit total of a usage object, under either spelling
ExplicitTotal(raw) ==
    IF ~Nullish(Get(raw, "total_tokens")) THEN Get(raw, "total_tokens")
    ELSE Get(raw, "totalTokens")
\* a token count of a usage object, under the first spelling that carries one
TokenCount(raw, keys) ==
    LET carried == {i \in 1..Len(keys) : ~Nullish(Get(raw, keys[i]))}
    IN IF carried = {} THEN Undefined
       ELSE Get(raw, keys[CHOOSE i \in carried : \A j \in carried : i <= j])
PromptCount(raw) ==
    TokenCount(raw, <<"prompt_tokens", "promptTokens", "input_tokens", "inputTokens">>)
CompletionCount(raw) ==
    TokenCount(raw, <<"completion_tokens", "completionTokens", "output_tokens",
                      "outputTokens">>)

\* C11: normalizeUsage agrees with the reference on every input: with no raw
\* usage it returns undefined only when no latency is available and otherwise
\* a record carrying only latencyMs; with a raw usage, totalTokens is the
\* explicit total verbatim if there is one, else the sum of the prompt and
\* completion counts if both are numbers, else absent; and a supplied
\* latencyMs, the value 0 included, is attached to the returned record.
C11_AgreesWithReference ==
    upc = "done" =>
        IF Nullish(rawUsage)
        THEN /\ usage = Undefined <=> latency = Undefined
             /\ latency # Undefined =>
                   usage = Obj(<<Entry("latencyMs", latency)>>)
        ELSE /\ usage.t = "object"
             /\ Get(usage, "totalTokens") =
                   IF ~Nullish(ExplicitTotal(rawUsage)) THEN ExplicitTotal(rawUsage)
                   ELSE IF IsNumber(PromptCount(rawUsage))
                           /\ IsNumber(CompletionCount(rawUsage))
                        THEN Num(PromptCount(rawUsage).n + CompletionCount(rawUsage).n)
                        ELSE Undefined
             /\ latency # Undefined => Get(usage, "latencyMs") = latency

\* the one input on which normalizeUsage leaves the reference: no raw usage
\* and a latency of 0
C11_ZeroLatencyDropped ==
    /\ upc = "done"
    /\ Nullish(rawUsage)
    /\ latency = Num(0)
    /\ usage = Undefined

\* everywhere else normalizeUsage agrees with the reference
C11_AgreesElsewhere ==
    ~(Nullish(rawUsage) /\ latency = Num(0)) => C11_AgreesWithReference

====
